---- MODULE Spec2Model ----
(***************************************************************************)
(* Ternary search tree of src/src/ternary_search_tree.py.                  *)
(*                                                                         *)
(* Python objects live in a heap: `nodes` is the sequence of TreeNode      *)
(* objects allocated so far, a reference is an index into it and 0 is      *)
(* None.  A Python str is a sequence of code points; the character of a    *)
(* node is a str of length 0 (the empty marker) or 1.  Indices into terms  *)
(* are 0-based as in the source.                                           *)
(***************************************************************************)
EXTENDS Integers, Sequences, FiniteSets, TLC

\* ---- bounds of the model ------------------------------------------------
\* terms: the code points of a term sum to at most MaxWeight
MaxWeight == 3
\* insert is explored while the tree has at most MaxNodes nodes
MaxNodes == 3
\* the read operations are explored on trees of at most MaxReadNodes nodes
MaxReadNodes == 2
\* values given to a TreeNode: code points summing to at most MaxArgWeight
MaxArgWeight == 4

\* the strings of code points 1, 2, ... whose code points sum to at most n:
\* the empty string, and a code point c before a string of sum at most n - c
RECURSIVE StringsUpTo(_)
StringsUpTo(n) ==
    {<<>>} \cup UNION {{<<c>> \o s : s \in StringsUpTo(n - c)} : c \in 1..n}

\* the terms handed to insert and search
Strings == StringsUpTo(MaxWeight)

\* the values handed to the TreeNode constructor and character setter
NodeArgs == StringsUpTo(MaxArgWeight)

None == 0

VARIABLES nodes, root, inserted, last, tnode, tlast

vars == <<nodes, root, inserted, last, tnode, tlast>>

treeVars == <<nodes, root, inserted, last>>

nodeVars == <<tnode, tlast>>

\* ---- Python str comparison ----------------------------------------------

\* lexicographic order of code-point sequences
LexLess(a, b) ==
    \E k \in 0..Len(a) :
        /\ k <= Len(b)
        /\ \A i \in 1..k : a[i] = b[i]
        /\ \/ (k = Len(a) /\ k < Len(b))
           \/ (k < Len(a) /\ k < Len(b) /\ a[k + 1] < b[k + 1])

\* the comparison reversed
py_lt_reversed(a, b) == LexLess(b, a)

\* str.__lt__ as used in `character < node.character`
py_lt(a, b) == LexLess(a, b)

\* str.__gt__ as used in `character > node.character`
py_gt(a, b) == LexLess(b, a)

\* ---- TreeNode -----------------------------------------------------------

TreeNodeChildren == [less_than |-> None, equals |-> None, larger_than |-> None]

\* the setter assigning before it checks
character_setter_late(nd, character) ==
    [err |-> IF Len(character) > 1 THEN "ValueError" ELSE "none",
     node |-> [nd EXCEPT !.character = character]]

\* the character setter: the outcome of `node.character = character` on the
\* node record nd (nd may lack the field when called from the constructor)
character_setter(nd, character) ==
    IF Len(character) > 1
    THEN [err |-> "ValueError", node |-> nd]
    ELSE [err |-> "none", node |-> [nd EXCEPT !.character = character]]

terminates_setter(nd, terminates) == [nd EXCEPT !.terminates = terminates]

\* a node object before __init__ has run: no attribute is set yet
Unset == "unset"

RawNode == [character |-> Unset, terminates |-> Unset, children |-> Unset]

\* TreeNode(character): err "ValueError" and no object when the setter raises
TreeNode(character) ==
    LET s == character_setter(RawNode, character)
    IN IF s.err # "none"
       THEN [err |-> s.err, node |-> RawNode]
       ELSE [err |-> "none",
             node |-> [terminates_setter(s.node, FALSE)
                          EXCEPT !.children = TreeNodeChildren]]

\* ---- insert -------------------------------------------------------------

\* term[index] of Python: IndexError outside -len..len-1
InRange(term, index) == index < Len(term) /\ index >= 0 - Len(term)

py_index(term, index) ==
    IF index >= 0 THEN <<term[index + 1]>> ELSE <<term[Len(term) + index + 1]>>

\* the last-character test off by one: `index == len(term)`
insert_is_last_late(term, index) == index = Len(term)

\* the last-character test off by one the other way: `index + 2 >= len(term)`
insert_is_last_early(term, index) == index + 2 >= Len(term)

\* `index + 1 == len(term)`
insert_is_last(term, index) == index + 1 = Len(term)

\* the test of `if node is None` dropped: a node is made on every call
node_is_none_always(node) == TRUE

\* `node is None`
node_is_none(node) == node = None

\* the flag set only on nodes that hold a code point
mark_terminates_no_sentinel(h, n) ==
    IF h[n].character = <<>>
    THEN h
    ELSE [h EXCEPT ![n] = terminates_setter(@, TRUE)]

\* `node.terminates = True`
mark_terminates(h, n) == [h EXCEPT ![n] = terminates_setter(@, TRUE)]

Raise(h, e, idx) ==
    [nodes |-> h, ret |-> None, err |-> e, depth |-> 1, indices |-> idx]

\* _insert(node, term, index) on heap h.  Result: the heap afterwards, the
\* returned reference, the exception raised ("none" if none), the depth of
\* nested calls and the indices used in term[index].
RECURSIVE _insert(_, _, _, _)
_insert(h, node, term, index) ==
    IF term # <<>> /\ ~InRange(term, index)
    THEN Raise(h, "IndexError", {index})
    ELSE
    LET character == IF term = <<>> THEN <<>> ELSE py_index(term, index)
        idx == IF term = <<>> THEN {} ELSE {index}
        made == TreeNode(character)
    IN
    IF node_is_none(node) /\ made.err # "none"
    THEN Raise(h, made.err, idx)
    ELSE
    LET h1 == IF node_is_none(node) THEN Append(h, made.node) ELSE h
        n == IF node_is_none(node) THEN Len(h) + 1 ELSE node
    IN
    IF py_lt(character, h1[n].character)
    THEN LET r == _insert(h1, h1[n].children.less_than, term, index)
         IN IF r.err # "none"
            THEN [r EXCEPT !.depth = @ + 1, !.indices = @ \cup idx]
            ELSE [nodes |-> [r.nodes EXCEPT ![n].children.less_than = r.ret],
                  ret |-> n, err |-> "none", depth |-> r.depth + 1,
                  indices |-> r.indices \cup idx]
    ELSE IF py_gt(character, h1[n].character)
    THEN LET r == _insert(h1, h1[n].children.larger_than, term, index)
         IN IF r.err # "none"
            THEN [r EXCEPT !.depth = @ + 1, !.indices = @ \cup idx]
            ELSE [nodes |-> [r.nodes EXCEPT ![n].children.larger_than = r.ret],
                  ret |-> n, err |-> "none", depth |-> r.depth + 1,
                  indices |-> r.indices \cup idx]
    ELSE IF term = <<>>
    THEN [nodes |-> mark_terminates(h1, n), ret |-> n, err |-> "none",
          depth |-> 1, indices |-> idx]
    ELSE IF insert_is_last(term, index)
    THEN [nodes |-> mark_terminates(h1, n), ret |-> n, err |-> "none",
          depth |-> 1, indices |-> idx]
    ELSE LET r == _insert(h1, h1[n].children.equals, term, index + 1)
         IN IF r.err # "none"
            THEN [r EXCEPT !.depth = @ + 1, !.indices = @ \cup idx]
            ELSE [nodes |-> [r.nodes EXCEPT ![n].children.equals = r.ret],
                  ret |-> n, err |-> "none", depth |-> r.depth + 1,
                  indices |-> r.indices \cup idx]

\* insert(term) on the tree (h, rt): heap and root afterwards, return value
insert(h, rt, term) ==
    LET r == _insert(h, rt, term, 0)
    IN IF r.err # "none"
       THEN [nodes |-> r.nodes, root |-> rt, ret |-> "raised", err |-> r.err,
             depth |-> r.depth, indices |-> r.indices]
       ELSE [nodes |-> r.nodes, root |-> r.ret, ret |-> TRUE, err |-> "none",
             depth |-> r.depth, indices |-> r.indices]

\* ---- __len__ ------------------------------------------------------------

\* count that leaves out the larger_than subtree
RECURSIVE count_no_larger(_, _)
count_no_larger(h, node) ==
    IF node = None
    THEN 0
    ELSE (IF h[node].terminates THEN 1 ELSE 0)
         + count_no_larger(h, h[node].children.less_than)
         + count_no_larger(h, h[node].children.equals)

\* count(node): the number of nodes with terminates set in node's subtree
RECURSIVE count(_, _)
count(h, node) ==
    IF node = None
    THEN 0
    ELSE (IF h[node].terminates THEN 1 ELSE 0)
         + count(h, h[node].children.less_than)
         + count(h, h[node].children.equals)
         + count(h, h[node].children.larger_than)

__len__(h, rt) == count(h, rt)

\* ---- search -------------------------------------------------------------

\* the last-character test off by one: `index == len(term)`
search_is_last_late(term, index) == index = Len(term)

\* `index == len(term) - 1`
search_is_last(term, index) == index = Len(term) - 1

\* the exact flag ignored: any node reached is a hit
search_hit_any(h, node, exact) == TRUE

\* the exact flag ignored: only a terminal node is a hit
search_hit_terminal(h, node, exact) == h[node].terminates

\* `node.terminates if exact else True`
search_hit(h, node, exact) == IF exact THEN h[node].terminates ELSE TRUE

Found(b, idx) == [ret |-> b, err |-> "none", depth |-> 1, indices |-> idx]

\* _search(node, index) for the enclosing term and exact
RECURSIVE _search(_, _, _, _, _)
_search(h, node, term, exact, index) ==
    IF node = None
    THEN Found(FALSE, {})
    ELSE
    IF term # <<>> /\ ~InRange(term, index)
    THEN [ret |-> "raised", err |-> "IndexError", depth |-> 1,
          indices |-> {index}]
    ELSE
    LET character == IF term = <<>> THEN <<>> ELSE py_index(term, index)
        idx == IF term = <<>> THEN {} ELSE {index}
        Deeper(r) == [r EXCEPT !.depth = @ + 1, !.indices = @ \cup idx]
    IN
    IF py_lt(character, h[node].character)
    THEN Deeper(_search(h, h[node].children.less_than, term, exact, index))
    ELSE IF py_gt(character, h[node].character)
    THEN Deeper(_search(h, h[node].children.larger_than, term, exact, index))
    ELSE IF term = <<>>
    THEN Found(TRUE, idx)
    ELSE IF search_is_last(term, index)
    THEN Found(search_hit(h, node, exact), idx)
    ELSE Deeper(_search(h, h[node].children.equals, term, exact, index + 1))

\* search without the special case of the empty prefix
search_walk(h, rt, term, exact) == _search(h, rt, term, exact, 0)

\* search(term, exact): depth 0 when the tree is not walked
search(h, rt, term, exact) ==
    IF term = <<>> /\ ~exact
    THEN [ret |-> (__len__(h, rt) # 0), err |-> "none", depth |-> 0,
          indices |-> {}]
    ELSE _search(h, rt, term, exact, 0)

\* ---- all_strings --------------------------------------------------------

\* collect that descends into larger_than before equals
RECURSIVE collect_larger_first(_, _, _)
collect_larger_first(h, node, path) ==
    IF node = None
    THEN <<>>
    ELSE LET new_path == path \o h[node].character
         IN collect_larger_first(h, h[node].children.less_than, path)
            \o (IF h[node].terminates THEN <<new_path>> ELSE <<>>)
            \o collect_larger_first(h, h[node].children.larger_than, path)
            \o collect_larger_first(h, h[node].children.equals, new_path)

\* collect(node, path): the strings appended to result, in order
RECURSIVE collect(_, _, _)
collect(h, node, path) ==
    IF node = None
    THEN <<>>
    ELSE LET new_path == path \o h[node].character
         IN collect(h, h[node].children.less_than, path)
            \o (IF h[node].terminates THEN <<new_path>> ELSE <<>>)
            \o collect(h, h[node].children.equals, new_path)
            \o collect(h, h[node].children.larger_than, path)

all_strings(h, rt) == collect(h, rt, <<>>)

\* ---- __repr__ -----------------------------------------------------------

\* render(node, prefix, label): the lines appended.  A line is the triple
\* prefix, label, node_repr; prefix is the sequence of its three-column
\* units and node_repr the character with the '*' mark as a flag.
RECURSIVE render(_, _, _, _)
render(h, node, prefix, label) ==
    IF node = None
    THEN <<>>
    ELSE LET node_repr == [character |-> h[node].character,
                           star |-> h[node].terminates]
             indent == Append(prefix, IF label # "" THEN "bar" ELSE "blank")
         IN <<[prefix |-> prefix, label |-> label, node_repr |-> node_repr]>>
            \o render(h, h[node].children.less_than, indent, "less")
            \o render(h, h[node].children.equals, indent, "equal")
            \o render(h, h[node].children.larger_than, indent, "greater")

__repr__(h, rt) ==
    LET lines == render(h, rt, <<>>, "")
    IN IF lines # <<>> THEN lines ELSE "<empty tree>"

\* ---- state machine ------------------------------------------------------

NoOp == [op |-> "new"]

\* TernarySearchTree(): root is None; no TreeNode exists
Init ==
    /\ nodes = <<>>
    /\ root = None
    /\ inserted = {}
    /\ last = NoOp
    /\ tnode = <<>>
    /\ tlast = NoOp

\* tree.insert(term), while the tree stays within MaxNodes nodes
Insert(term) ==
    /\ LET r == insert(nodes, root, term)
       IN /\ Len(r.nodes) <= MaxNodes
          /\ nodes' = r.nodes
          /\ root' = r.root
          /\ last' = [op |-> "insert", term |-> term, ret |-> r.ret,
                      err |-> r.err, depth |-> r.depth, indices |-> r.indices,
                      known |-> term \in inserted]
    /\ inserted' = inserted \cup {term}
    /\ UNCHANGED nodeVars

\* the trees on which the read operations are explored
Readable == Len(nodes) <= MaxReadNodes

\* len(tree)
Size ==
    /\ Readable
    /\ last' = [op |-> "len", ret |-> __len__(nodes, root)]
    /\ UNCHANGED <<nodes, root, inserted>>
    /\ UNCHANGED nodeVars

\* a search that makes the nodes it misses
SearchCreating(term, exact) ==
    /\ Readable
    /\ LET r == search(nodes, root, term, exact)
           w == insert(nodes, root, term)
       IN /\ last' = [op |-> "search", term |-> term, exact |-> exact,
                      ret |-> r.ret, err |-> r.err, depth |-> r.depth,
                      indices |-> r.indices]
          /\ nodes' = w.nodes
          /\ root' = w.root
    /\ UNCHANGED inserted
    /\ UNCHANGED nodeVars

\* tree.search(term, exact)
Search(term, exact) ==
    /\ Readable
    /\ LET r == search(nodes, root, term, exact)
       IN last' = [op |-> "search", term |-> term, exact |-> exact,
                   ret |-> r.ret, err |-> r.err, depth |-> r.depth,
                   indices |-> r.indices]
    /\ UNCHANGED <<nodes, root, inserted>>
    /\ UNCHANGED nodeVars

\* tree.all_strings()
AllStrings ==
    /\ Readable
    /\ last' = [op |-> "all_strings", ret |-> all_strings(nodes, root)]
    /\ UNCHANGED <<nodes, root, inserted>>
    /\ UNCHANGED nodeVars

\* repr(tree)
Repr ==
    /\ Readable
    /\ last' = [op |-> "repr", ret |-> __repr__(nodes, root)]
    /\ UNCHANGED <<nodes, root, inserted>>
    /\ UNCHANGED nodeVars

Next ==
    \/ \E term \in Strings : Insert(term)
    \/ \E term \in Strings, exact \in BOOLEAN : Search(term, exact)
    \/ Size
    \/ AllStrings
    \/ Repr

Spec == Init /\ [][Next]_vars

\* ---- a TreeNode on its own ----------------------------------------------

\* tnode = TreeNode(character); tnode keeps its old binding when it raises.
\* tnode is <<>> while unbound and <<node>> once bound.
NodeConstruct(character) ==
    /\ LET r == TreeNode(character)
       IN /\ tnode' = IF r.err = "none" THEN <<r.node>> ELSE tnode
          /\ tlast' = [op |-> "construct", arg |-> character, err |-> r.err]
    /\ UNCHANGED treeVars

\* tnode.character = character
NodeSetCharacter(character) ==
    /\ tnode # <<>>
    /\ LET r == character_setter(tnode[1], character)
       IN /\ tnode' = <<r.node>>
          /\ tlast' = [op |-> "set_character", arg |-> character,
                       err |-> r.err]
    /\ UNCHANGED treeVars

\* tnode.terminates = terminates
NodeSetTerminates(terminates) ==
    /\ tnode # <<>>
    /\ tnode' = <<terminates_setter(tnode[1], terminates)>>
    /\ tlast' = [op |-> "set_terminates", arg |-> terminates, err |-> "none"]
    /\ UNCHANGED treeVars

NextNode ==
    \/ \E character \in NodeArgs : NodeConstruct(character)
    \/ \E character \in NodeArgs : NodeSetCharacter(character)
    \/ \E terminates \in BOOLEAN : NodeSetTerminates(terminates)

SpecNode == Init /\ [][NextNode]_vars

\* ---- properties ---------------------------------------------------------

\* the terms searched for: terms beyond the stored ones included
Queries == StringsUpTo(MaxWeight + 1)

IsPrefix(p, w) == Len(p) <= Len(w) /\ \A i \in 1..Len(p) : p[i] = w[i]

SeqRange(q) == {q[i] : i \in 1..Len(q)}

Ascending(q) == \A i, j \in 1..Len(q) : i < j => LexLess(q[i], q[j])

\* C1: after any sequence of insert calls from the empty tree, size()
\* equals the number of distinct strings inserted (0 on a new tree).
C1_SizeIsDistinctCount ==
    /\ __len__(nodes, root) = Cardinality(inserted)
    /\ (last.op = "new" => __len__(nodes, root) = 0)

\* a duplicate insert has just happened on a tree of three strings, the
\* empty string among them
C1_Witness ==
    /\ last.op = "insert"
    /\ last.known
    /\ <<>> \in inserted
    /\ Cardinality(inserted) = 3
    /\ __len__(nodes, root) = 3

\* C2: all_strings() is the distinct inserted strings, each once, in
\* ascending code-point order; [] on the empty tree; "" comes first.
C2_AllStringsSorted ==
    LET r == all_strings(nodes, root)
    IN /\ Len(r) = Cardinality(inserted)
       /\ SeqRange(r) = inserted
       /\ Ascending(r)
       /\ (inserted = {} => r = <<>>)
       /\ (<<>> \in inserted => r[1] = <<>>)

\* three strings were inserted in an order that is not the sorted one, the
\* empty string not first
C2_Witness ==
    /\ Cardinality(inserted) = 3
    /\ <<>> \in inserted
    /\ root # None
    /\ nodes[root].character # <<>>
    /\ nodes[root].children.less_than # None
    /\ nodes[root].children.equals # None
    /\ Len(all_strings(nodes, root)) = 3

\* C3: search(s, exact=True) is true iff s was inserted.
C3_ExactSearchIsMembership ==
    \A s \in Queries :
        LET r == search(nodes, root, s, TRUE)
        IN r.err = "none" /\ (r.ret <=> s \in inserted)

\* a stored string has a non-empty proper prefix that was not inserted, and
\* the empty string was not inserted either
C3_Witness ==
    /\ <<>> \notin inserted
    /\ \E w \in inserted : \E p \in Strings :
          /\ p # <<>> /\ p # w /\ IsPrefix(p, w) /\ p \notin inserted
          /\ search(nodes, root, p, TRUE).ret = FALSE
          /\ search(nodes, root, w, TRUE).ret = TRUE

\* C4: for non-empty s, search(s, exact=False) is true iff s is a prefix
\* of some inserted string.
C4_PrefixSearchIsPrefixExistence ==
    \A s \in Queries \ {<<>>} :
        LET r == search(nodes, root, s, FALSE)
        IN r.err = "none" /\ (r.ret <=> \E w \in inserted : IsPrefix(s, w))

\* a proper prefix that was not inserted is found, and a string that is no
\* prefix of a stored one is not
C4_Witness ==
    /\ \E w \in inserted : \E p \in Strings :
          /\ p # <<>> /\ p # w /\ IsPrefix(p, w) /\ p \notin inserted
          /\ search(nodes, root, p, FALSE).ret = TRUE
    /\ \E s \in Strings :
          /\ s # <<>>
          /\ \A w \in inserted : ~IsPrefix(s, w)
          /\ search(nodes, root, s, FALSE).ret = FALSE

C5_TwiceAsOnce ==
    \A s \in Strings :
        LET once == insert(nodes, root, s)
            twice == insert(once.nodes, once.root, s)
        IN /\ __len__(twice.nodes, twice.root) = __len__(once.nodes, once.root)
           /\ all_strings(twice.nodes, twice.root)
                 = all_strings(once.nodes, once.root)

C5_KnownKeeps ==
    (last'.op = "insert" /\ last'.known)
        => /\ __len__(nodes', root') = __len__(nodes, root)
           /\ all_strings(nodes', root') = all_strings(nodes, root)

\* C5: inserting a stored string leaves size() and all_strings() as they
\* were, and inserting a string twice gives what inserting it once gives.
C5_InsertIdempotent == [](C5_TwiceAsOnce) /\ [][C5_KnownKeeps]_vars

\* a stored string has just been inserted again into a tree of several
C5_Witness ==
    /\ last.op = "insert"
    /\ last.known
    /\ Cardinality(inserted) >= 2
    /\ last.term # <<>>

\* C6: search("", exact=False) is true iff size() > 0: false on the empty
\* tree, true when only non-empty strings are stored (exact search of ""
\* being false then), true when only "" is stored.
C6_EmptyPrefixIsNonEmpty ==
    LET r == search(nodes, root, <<>>, FALSE)
    IN /\ r.err = "none"
       /\ (r.ret <=> __len__(nodes, root) > 0)
       /\ (r.ret <=> inserted # {})
       /\ (inserted # {} /\ <<>> \notin inserted
              => search(nodes, root, <<>>, TRUE).ret = FALSE)

\* only non-empty strings are stored
C6_Witness ==
    /\ inserted # {}
    /\ <<>> \notin inserted
    /\ search(nodes, root, <<>>, FALSE).ret = TRUE

IndicesOf(term) == 0..(Len(term) - 1)

\* C7: insert returns True for every term, no operation raises, and
\* term is never indexed outside 0..len(term)-1.
C7_OperationsTotal ==
    /\ last.op = "insert"
          => last.err = "none" /\ last.ret = TRUE
             /\ last.indices \subseteq IndicesOf(last.term)
    /\ last.op = "search"
          => last.err = "none" /\ last.ret \in BOOLEAN
             /\ last.indices \subseteq IndicesOf(last.term)
    /\ \A s \in Strings :
          LET r == insert(nodes, root, s)
          IN r.err = "none" /\ r.ret = TRUE
             /\ r.indices \subseteq IndicesOf(s)
    /\ \A s \in Queries, exact \in BOOLEAN :
          LET r == search(nodes, root, s, exact)
          IN r.err = "none" /\ r.ret \in BOOLEAN
             /\ r.indices \subseteq IndicesOf(s)
    /\ __len__(nodes, root) \in Nat
    /\ Len(all_strings(nodes, root)) \in Nat

\* a string of two code points has just been inserted next to the empty
\* string
C7_Witness ==
    /\ last.op = "insert"
    /\ Len(last.term) = 2
    /\ last.ret = TRUE
    /\ <<>> \in inserted

ReadOps == {"len", "search", "all_strings", "repr"}

C8_ReadStep == last'.op \in ReadOps => nodes' = nodes /\ root' = root

\* C8: size(), search, all_strings() and the rendering leave the root and
\* every node's character, terminates flag and child links as they were.
C8_ReadsKeepTree == [][C8_ReadStep]_vars

\* a failed search has just run on a tree of several nodes
C8_Witness ==
    /\ last.op = "search"
    /\ last.ret = FALSE
    /\ Len(nodes) >= 2

C9_Outcome ==
    tlast.op \in {"construct", "set_character"}
        => /\ (tlast.err = "ValueError" <=> Len(tlast.arg) > 1)
           /\ (tlast.err = "none" <=> Len(tlast.arg) <= 1)
           /\ (tlast.err = "none" => tnode[1].character = tlast.arg)

C9_RaiseKeeps == tlast'.err = "ValueError" => tnode' = tnode

\* C9: a character of more than one code point is refused with ValueError
\* and the stored character stays; one code point or "" is accepted.
C9_CharacterAtMostOne == [](C9_Outcome) /\ [][C9_RaiseKeeps]_vars

\* an assignment of two code points to a node holding one has been refused
C9_Witness ==
    /\ tlast.op = "set_character"
    /\ tlast.err = "ValueError"
    /\ tnode # <<>>
    /\ Len(tnode[1].character) = 1

\* the nodes reached from node through less_than and larger_than links
RECURSIVE Siblings(_, _)
Siblings(h, node) ==
    IF node = None
    THEN {}
    ELSE {node} \cup Siblings(h, h[node].children.less_than)
                \cup Siblings(h, h[node].children.larger_than)

\* the first nodes of the character positions: the root and equals children
Heads == {root} \cup {nodes[n].children.equals : n \in 1..Len(nodes)}

\* C10: below a node's less_than child, along less_than/larger_than links,
\* every character is smaller than the node's; below its larger_than
\* child every character is larger; so siblings differ in character.
C10_SiblingOrder ==
    /\ \A n \in 1..Len(nodes) :
          /\ \A m \in Siblings(nodes, nodes[n].children.less_than) :
                LexLess(nodes[m].character, nodes[n].character)
          /\ \A m \in Siblings(nodes, nodes[n].children.larger_than) :
                LexLess(nodes[n].character, nodes[m].character)
    /\ \A hd \in Heads : \A m1, m2 \in Siblings(nodes, hd) :
          nodes[m1].character = nodes[m2].character => m1 = m2

\* a less_than child has a larger_than child of its own
C10_Witness ==
    \E n \in 1..Len(nodes) :
        /\ nodes[n].children.less_than # None
        /\ nodes[nodes[n].children.less_than].children.larger_than # None

\* the pairs <<node, string>> of the subtree of node, path being the
\* characters of the nodes left through equals links on the way to node:
\* the string is path followed by the node's own character
RECURSIVE Spelled(_, _, _)
Spelled(h, node, path) ==
    IF node = None
    THEN {}
    ELSE LET own == path \o h[node].character
         IN {<<node, own>>}
            \cup Spelled(h, h[node].children.less_than, path)
            \cup Spelled(h, h[node].children.larger_than, path)
            \cup Spelled(h, h[node].children.equals, own)

\* the nodes that spell a non-empty prefix of w
PathNodes(sp, w) == {p \in sp : p[2] # <<>> /\ IsPrefix(p[2], w)}

\* C11: a node has terminates set iff the string it spells was inserted,
\* and an inserted string of length L > 0 is spelled by exactly L nodes,
\* one for each prefix length, the flag set on the L-th.
C11_TerminalFlag ==
    LET sp == Spelled(nodes, root, <<>>)
    IN /\ {p[1] : p \in sp} = 1..Len(nodes)
       /\ \A p \in sp : nodes[p[1]].terminates <=> p[2] \in inserted
       /\ \A w \in inserted \ {<<>>} :
             /\ Cardinality(PathNodes(sp, w)) = Len(w)
             /\ {Len(p[2]) : p \in PathNodes(sp, w)} = 1..Len(w)
             /\ \E p \in PathNodes(sp, w) :
                   p[2] = w /\ nodes[p[1]].terminates

\* a string of two code points is stored whose first code point was not
\* inserted by itself, next to another stored string
C11_Witness ==
    /\ \E w \in inserted : Len(w) = 2 /\ <<w[1]>> \notin inserted
    /\ Cardinality(inserted) >= 2
    /\ \E n \in 1..Len(nodes) : ~nodes[n].terminates

\* the nodes whose character is the empty marker
Sentinels == {n \in 1..Len(nodes) : nodes[n].character = <<>>}

\* C12: a sentinel node exists iff the empty string was inserted; there is
\* at most one, it is at the first character position (the root or reached
\* from it by less_than/larger_than links only), it has terminates set and
\* it has no equals child.
C12_Sentinel ==
    /\ (Sentinels # {} <=> <<>> \in inserted)
    /\ Cardinality(Sentinels) <= 1
    /\ Sentinels \subseteq Siblings(nodes, root)
    /\ \A n \in 1..Len(nodes) :
          nodes[n].children.equals \notin Sentinels
    /\ \A n \in Sentinels :
          /\ nodes[n].terminates
          /\ nodes[n].children.equals = None

\* the empty string was inserted after a longer string, so that the
\* sentinel is not the root and the tree has an equals link
C12_Witness ==
    /\ <<>> \in inserted
    /\ root \notin Sentinels
    /\ Sentinels # {}
    /\ \E n \in 1..Len(nodes) : nodes[n].children.equals # None

\* the length of term, one for the empty term
LengthOrOne(term) == IF term = <<>> THEN 1 ELSE Len(term)

\* a search that walks the tree: all but the prefix search of ""
Walks(term, exact) == ~(term = <<>> /\ ~exact)

\* the way from node to the node of the last character of term (the
\* sentinel for the empty term), index being the position looked for:
\* whether that node is there, and the number of less_than/larger_than
\* links on the way
RECURSIVE Descent(_, _, _, _)
Descent(h, node, term, index) ==
    IF node = None
    THEN [found |-> FALSE, links |-> 0]
    ELSE LET c == IF term = <<>> THEN <<>> ELSE <<term[index + 1]>>
             Linked(d) == [d EXCEPT !.links = @ + 1]
         IN IF LexLess(c, h[node].character)
            THEN Linked(Descent(h, h[node].children.less_than, term, index))
            ELSE IF LexLess(h[node].character, c)
            THEN Linked(Descent(h, h[node].children.larger_than, term, index))
            ELSE IF index + 1 >= Len(term)
            THEN [found |-> TRUE, links |-> 0]
            ELSE Descent(h, h[node].children.equals, term, index + 1)

\* C13 as stated: in every call of insert, and of a search that walks the
\* tree, the depth of nested _insert or _search calls equals the length of
\* term (one for the empty term), whatever the tree.
C13_DepthIsLength ==
    /\ last.op = "insert" => last.depth = LengthOrOne(last.term)
    /\ (last.op = "search" /\ Walks(last.term, last.exact))
          => last.depth = LengthOrOne(last.term)

\* C13 amended: the depth of _insert is the length of term (one for the
\* empty term) plus the number of less_than/larger_than links followed;
\* so is the depth of a _search that reaches the node of the last
\* character, and a _search that ends at an absent node is no deeper.
C13_DepthIsLengthPlusLinks ==
    /\ \A s \in Strings :
          LET r == insert(nodes, root, s)
              d == Descent(r.nodes, r.root, s, 0)
          IN d.found /\ r.depth = LengthOrOne(s) + d.links
    /\ \A s \in Queries, exact \in BOOLEAN :
          LET r == search(nodes, root, s, exact)
              d == Descent(nodes, root, s, 0)
          IN Walks(s, exact)
                => IF d.found
                   THEN r.depth = LengthOrOne(s) + d.links
                   ELSE r.depth <= LengthOrOne(s) + d.links
    /\ last.op = "insert"
          => last.depth
                = LengthOrOne(last.term) + Descent(nodes, root, last.term, 0).links

\* the insert that has just run went deeper than its term is long, and
\* some stored string is found by a search deeper than its length
C13_Witness ==
    /\ last.op = "insert"
    /\ last.depth > LengthOrOne(last.term)
    /\ \E s \in inserted :
          search(nodes, root, s, TRUE).depth > LengthOrOne(s)

====
